---- MODULE Spec2Model ----
(***************************************************************************)
(* pykafka/utils/struct_helpers.py: the format-string codec.               *)
(*                                                                         *)
(* Format strings are sequences of one-character strings, buffers are      *)
(* sequences of bytes (0..255); the byte at Python offset o is buff[o+1].  *)
(* Python values are tagged records [t, v]: t is "int", "bigint", "None",  *)
(* "bytes", "list" or "tuple".  "bigint" stands for an integer of 2^31 or  *)
(* more, which the varint decoder can produce from long continuation       *)
(* chains and which lies outside the integers TLC computes with.           *)
(*                                                                         *)
(* The struct module is modelled for the codes x b B h H i l, with the     *)
(* CPython 2.7 semantics the source was written for (chr() yields a        *)
(* one-byte string).  What depends on the machine (native byte order, the  *)
(* native size of a C long) is the variable host.                          *)
(***************************************************************************)
EXTENDS Integers, Sequences, FiniteSets, TLC

VARIABLES host,       \* the machine: native byte order and sizeof(long)
          fmt,        \* the format string of the calls
          args,       \* the positional arguments of pack_into
          val,        \* the value of pack_varint_into
          offset,     \* the offset of the calls
          buff,       \* the buffer
          packret,    \* outcome of the latest pack call
          unpackret   \* outcome of the latest unpack call since the latest pack

vars == <<host, fmt, args, val, offset, buff, packret, unpackret>>

(* ------------------------------ bounds --------------------------------- *)
BufLen == 12       \* size of the preallocated buffer of the encode inputs
MaxOffset == 1     \* offsets 0..MaxOffset

(* --------------------------- Python values ----------------------------- *)
IntV(n) == [t |-> "int", v |-> <<n>>]
BigIntV == [t |-> "bigint", v |-> <<>>]
NoneV == [t |-> "None", v |-> <<>>]
BytesV(bs) == [t |-> "bytes", v |-> bs]
ListV(xs) == [t |-> "list", v |-> xs]
TupleV(xs) == [t |-> "tuple", v |-> xs]

Pow2(n) == 2 ^ n

RECURSIVE Zeros(_)
Zeros(n) == IF n <= 0 THEN <<>> ELSE <<0>> \o Zeros(n - 1)

RECURSIVE Reverse(_)
Reverse(s) == IF s = <<>> THEN <<>> ELSE Reverse(Tail(s)) \o <<Head(s)>>

\* buff[a:b] of Python (0-based, clipped to the buffer)
Slice(b, from, to) ==
    LET lo == IF from < 0 THEN 0 ELSE from
        hi == IF to > Len(b) THEN Len(b) ELSE to
    IN IF hi <= lo THEN <<>> ELSE SubSeq(b, lo + 1, hi)

\* the buffer with bytes bs stored from offset o on
WriteAt(b, o, bs) ==
    [k \in 1..Len(b) |-> IF k > o /\ k <= o + Len(bs) THEN bs[k - o] ELSE b[k]]

(* --------------------------- struct module ----------------------------- *)
\* the codes of the struct module this model covers
StructCodes == {"x", "b", "B", "h", "H", "i", "l"}
OrderMarks == {"@", "=", "<", ">", "!"}

\* byte order, size and alignment mode selected by the first character
StructMode(f) ==
    IF f # <<>> /\ Head(f) \in {">", "!"} THEN [order |-> "big", native |-> FALSE]
    ELSE IF f # <<>> /\ Head(f) = "<" THEN [order |-> "little", native |-> FALSE]
    ELSE IF f # <<>> /\ Head(f) = "=" THEN [order |-> host.order, native |-> FALSE]
    ELSE [order |-> host.order, native |-> TRUE]

\* the format without its order mark and without whitespace
StructBody(f) ==
    LET g == IF f # <<>> /\ Head(f) \in OrderMarks THEN Tail(f) ELSE f
    IN SelectSeq(g, LAMBDA c : c # " ")

StructValid(f) == \A k \in 1..Len(StructBody(f)) : StructBody(f)[k] \in StructCodes

CodeSize(c, mode) ==
    IF c \in {"x", "b", "B"} THEN 1
    ELSE IF c \in {"h", "H"} THEN 2
    ELSE IF c = "i" THEN 4
    ELSE IF mode.native THEN host.long ELSE 4

\* native mode aligns every item to its size, the standard modes do not pad
AlignUp(pos, c, mode) ==
    IF mode.native
    THEN ((pos + CodeSize(c, mode) - 1) \div CodeSize(c, mode)) * CodeSize(c, mode)
    ELSE pos

RECURSIVE SizeFrom(_, _, _)
SizeFrom(body, pos, mode) ==
    IF body = <<>> THEN pos
    ELSE SizeFrom(Tail(body), AlignUp(pos, Head(body), mode) + CodeSize(Head(body), mode), mode)

\* struct.calcsize(f), for a valid f
calcsize(f) == SizeFrom(StructBody(f), 0, StructMode(f))

\* number of values a format packs or unpacks
StructLen(f) == Len(SelectSeq(StructBody(f), LAMBDA c : c # "x"))

InRange(c, n) ==
    IF c = "b" THEN n >= -128 /\ n <= 127
    ELSE IF c = "B" THEN n >= 0 /\ n <= 255
    ELSE IF c = "h" THEN n >= -32768 /\ n <= 32767
    ELSE IF c = "H" THEN n >= 0 /\ n <= 65535
    ELSE TRUE

\* two's complement bytes of n, least significant first
RECURSIVE IntBytesLE(_, _)
IntBytesLE(n, size) ==
    IF size = 0 THEN <<>> ELSE <<n % 256>> \o IntBytesLE(n \div 256, size - 1)

IntBytes(n, size, order) ==
    IF order = "little" THEN IntBytesLE(n, size) ELSE Reverse(IntBytesLE(n, size))

RECURSIVE FoldBE(_, _)
FoldBE(acc, bs) == IF bs = <<>> THEN acc ELSE FoldBE(acc * 256 + Head(bs), Tail(bs))

\* the integer held by big-endian bytes bs, read as code c
IntFromBE(c, bs) ==
    IF c \in {"B", "H"} THEN FoldBE(0, bs)
    ELSE FoldBE(IF Head(bs) >= 128 THEN Head(bs) - 256 ELSE Head(bs), Tail(bs))

\* s_pack_internal: the region is zeroed, then the items are stored in turn;
\* a value out of range stops the call with the region partly written
RECURSIVE PackItems(_, _, _, _, _)
PackItems(body, vals, out, mode, total) ==
    IF body = <<>> THEN [ok |-> TRUE, bytes |-> out]
    ELSE LET c == Head(body)
             at == AlignUp(Len(out), c, mode)
             padded == out \o Zeros(at - Len(out))
         IN IF c = "x" THEN PackItems(Tail(body), vals, padded \o <<0>>, mode, total)
            ELSE IF ~InRange(c, Head(vals))
                 THEN [ok |-> FALSE, bytes |-> out \o Zeros(total - Len(out))]
                 ELSE PackItems(Tail(body), Tail(vals),
                                padded \o IntBytes(Head(vals), CodeSize(c, mode), mode.order),
                                mode, total)

\* struct.pack_into(f, buff, offset, *vals)
struct_pack_into(f, b, o, vals) ==
    IF ~StructValid(f) \/ Len(vals) # StructLen(f) \/ o < 0 \/ Len(b) - o < calcsize(f)
    THEN [ok |-> FALSE, err |-> "struct.error", buff |-> b]
    ELSE LET p == PackItems(StructBody(f), vals, <<>>, StructMode(f), calcsize(f))
         IN [ok |-> p.ok, err |-> IF p.ok THEN "" ELSE "struct.error",
             buff |-> WriteAt(b, o, p.bytes)]

\* struct.unpack_from('!' + ch, buff, offset) for one format character ch
struct_unpack_from(ch, b, o) ==
    LET f == <<"!", ch>>
    IN IF ch \in OrderMarks \/ ~StructValid(f) \/ o < 0 \/ Len(b) - o < calcsize(f)
       THEN [ok |-> FALSE, err |-> "struct.error", vals |-> <<>>, n |-> 0]
       ELSE [ok |-> TRUE, err |-> "",
             vals |-> IF ch = "x" THEN <<>>
                      ELSE <<IntV(IntFromBE(ch, Slice(b, o, o + calcsize(f))))>>,
             n |-> calcsize(f)]

\* struct.unpack_from('!%ds' % len_, buff, offset): a negative len_ makes a
\* format struct rejects
struct_unpack_bytes(len_, b, o) ==
    IF len_ < 0 \/ o < 0 \/ Len(b) - o < len_
    THEN [ok |-> FALSE, err |-> "struct.error", vals |-> <<>>, n |-> 0]
    ELSE [ok |-> TRUE, err |-> "", vals |-> <<BytesV(Slice(b, o, o + len_))>>, n |-> len_]

(* ------------------------------ varints -------------------------------- *)
\* the loop of pack_varint_into; a negative val never becomes 0 and the
\* loop ends with struct.error at the end of the buffer
\* faulty variant: the continuation flag is never set
RECURSIVE pack_varint_loop_noflag(_, _, _, _)
pack_varint_loop_noflag(b, o, v, size) ==
    LET towrite == v % 128
        rest == v \div 128
    IN IF o < 0 \/ Len(b) - o < 1
       THEN [ok |-> FALSE, err |-> "struct.error", buff |-> b, size |-> size + 1]
       ELSE IF rest # 0
            THEN pack_varint_loop_noflag(WriteAt(b, o, <<towrite>>), o + 1, rest, size + 1)
            ELSE [ok |-> TRUE, err |-> "", buff |-> WriteAt(b, o, <<towrite>>),
                  size |-> size + 1]

RECURSIVE pack_varint_loop(_, _, _, _)
pack_varint_loop(b, o, v, size) ==
    LET towrite == v % 128
        rest == v \div 128
        byte == IF rest # 0 THEN towrite + 128 ELSE towrite
    IN IF o < 0 \/ Len(b) - o < 1
       THEN [ok |-> FALSE, err |-> "struct.error", buff |-> b, size |-> size + 1]
       ELSE IF rest # 0
            THEN pack_varint_loop(WriteAt(b, o, <<byte>>), o + 1, rest, size + 1)
            ELSE [ok |-> TRUE, err |-> "", buff |-> WriteAt(b, o, <<byte>>), size |-> size + 1]

pack_varint_into(b, o, v) == pack_varint_loop(b, o, v, 0)

\* result | ((i & 0x7f) << shift), as a value
VarintOr(result, i, shift) ==
    IF result.t = "bigint" THEN BigIntV
    ELSE IF i % 128 = 0 THEN result
    ELSE IF shift > 28 \/ (shift = 28 /\ i % 128 >= 8) THEN BigIntV
    ELSE IntV(result.v[1] + (i % 128) * Pow2(shift))

\* the loop of unpack_varint_from; ord() of the empty slice at the end of
\* the buffer raises TypeError
\* faulty variant: past the end of the buffer a zero byte is read
RECURSIVE unpack_varint_loop_pad(_, _, _, _, _)
unpack_varint_loop_pad(b, o, size, shift, result) ==
    LET s == Slice(b, o, o + 1)
    IN IF Len(s) # 1
       THEN [ok |-> TRUE, err |-> "", size |-> size + 1, result |-> result]
       ELSE IF s[1] >= 128
            THEN unpack_varint_loop_pad(b, o + 1, size + 1, shift + 7,
                                        VarintOr(result, s[1], shift))
            ELSE [ok |-> TRUE, err |-> "", size |-> size + 1,
                  result |-> VarintOr(result, s[1], shift)]

RECURSIVE unpack_varint_loop(_, _, _, _, _)
unpack_varint_loop(b, o, size, shift, result) ==
    LET s == Slice(b, o, o + 1)
    IN IF Len(s) # 1
       THEN [ok |-> FALSE, err |-> "TypeError", size |-> size + 1, result |-> result]
       ELSE IF s[1] >= 128
            THEN unpack_varint_loop(b, o + 1, size + 1, shift + 7, VarintOr(result, s[1], shift))
            ELSE [ok |-> TRUE, err |-> "", size |-> size + 1,
                  result |-> VarintOr(result, s[1], shift)]

unpack_varint_from(b, o) == unpack_varint_loop(b, o, 0, 0, IntV(0))

(* ------------------------------ decoding ------------------------------- *)
\* str.count
RECURSIVE CountOf(_, _)
CountOf(c, s) ==
    IF s = <<>> THEN 0 ELSE (IF Head(s) = c THEN 1 ELSE 0) + CountOf(c, Tail(s))

\* itertools.chain.from_iterable over the tuples of an array
RECURSIVE Chain(_)
Chain(xs) == IF xs = <<>> THEN <<>> ELSE Head(xs).v \o Chain(Tail(xs))

NoArray == [some |-> FALSE, s |-> <<>>]
Failed(e, st) == [st EXCEPT !.ok = FALSE, !.err = e]

\* _unpack returns [ok, err, items, offset, reads]: items and offset are the
\* pair the source returns; reads lists, in order, the byte ranges
\* [at, n] the values were read from
RECURSIVE _unpack(_, _, _, _)
RECURSIVE _unpack_array(_, _, _, _)
RECURSIVE unpack_repeat(_, _, _, _)
RECURSIVE unpack_chars(_, _, _, _)
RECURSIVE unpack_char(_, _, _)

\* lines 79-82: the array a, decoded after its count prefix, joins the items
array_done(st, a) ==
    IF ~a.ok THEN Failed(a.err, st)
    ELSE [st EXCEPT !.items = Append(@, ListV(a.output)),
                    !.offset = a.offset,
                    !.array_fmt = NoArray,
                    !.reads = @ \o <<[at |-> st.offset, n |-> 4]>> \o a.reads]

\* lines 78-80: the count c is read, then the repetitions
array_close(b, st, c) ==
    IF ~c.ok THEN Failed(c.err, st)
    ELSE array_done(st, _unpack_array(st.array_fmt.s, b, st.offset + 4, c.vals[1].v[1]))

\* lines 89-91: the varint u joins the items
varint_done(st, u) ==
    IF ~u.ok THEN Failed(u.err, st)
    ELSE [st EXCEPT !.items = Append(@, u.result),
                    !.offset = @ + u.size,
                    !.reads = Append(@, [at |-> st.offset, n |-> u.size])]

\* lines 100-102: the payload r, read at o2 after the length prefix
payload_done(st, o2, r) ==
    IF ~r.ok THEN Failed(r.err, st)
    ELSE [st EXCEPT !.items = @ \o r.vals,
                    !.offset = o2 + r.n,
                    !.reads = @ \o <<[at |-> st.offset, n |-> o2 - st.offset],
                                     [at |-> o2, n |-> r.n]>>]

\* lines 94-100: the length prefix l of format len_fmt has been read
length_done(b, st, len_fmt, l) ==
    IF ~l.ok THEN Failed(l.err, st)
    ELSE IF l.vals[1].v[1] = -1
    THEN [st EXCEPT !.items = Append(@, NoneV),
                    !.offset = @ + calcsize(len_fmt),
                    !.reads = Append(@, [at |-> st.offset, n |-> l.n])]
    ELSE payload_done(st, st.offset + calcsize(len_fmt),
                      struct_unpack_bytes(l.vals[1].v[1], b, st.offset + calcsize(len_fmt)))

\* lines 101-102: the primitive r of format character ch joins the items
primitive_done(st, ch, r) ==
    IF ~r.ok THEN Failed(r.err, st)
    ELSE [st EXCEPT !.items = @ \o r.vals,
                    !.offset = @ + calcsize(<<ch>>),
                    !.reads = Append(@, [at |-> st.offset, n |-> r.n])]

\* one round of the loop over the format characters
unpack_char(ch, b, st) ==
    IF st.array_fmt.some
    THEN IF ch = "]" /\ CountOf("[", st.array_fmt.s) = CountOf("]", st.array_fmt.s)
         THEN array_close(b, st, struct_unpack_from("i", b, st.offset))
         ELSE [st EXCEPT !.array_fmt.s = Append(@, ch)]
    ELSE IF ch = "[" THEN [st EXCEPT !.array_fmt = [some |-> TRUE, s |-> <<>>]]
    ELSE IF ch = "V" THEN varint_done(st, unpack_varint_from(b, st.offset))
    ELSE IF ch = "S"
    THEN length_done(b, st, <<"!", "h">>, struct_unpack_from("h", b, st.offset))
    ELSE IF ch = "Y"
    THEN length_done(b, st, <<"!", "i">>, struct_unpack_from("i", b, st.offset))
    ELSE primitive_done(st, ch, struct_unpack_from(ch, b, st.offset))

\* the loop over the format characters, from character i on
unpack_chars(f, b, i, st) ==
    IF i > Len(f) \/ ~st.ok THEN st
    ELSE unpack_chars(f, b, i + 1, unpack_char(f[i], b, st))

\* the result of the walker from the state st the loop ended in
unpack_result(st) ==
    [ok |-> st.ok, err |-> st.err, items |-> st.items, offset |-> st.offset,
     reads |-> st.reads]

_unpack(f, b, o, count) ==
    unpack_result(unpack_chars(f, b, 1, [ok |-> TRUE, err |-> "", items |-> <<>>,
                                         array_fmt |-> NoArray, offset |-> o,
                                         reads |-> <<>>]))

\* line 120-121: the repetition u joins the output
repeat_done(acc, u) ==
    IF ~u.ok THEN [acc EXCEPT !.ok = FALSE, !.err = u.err]
    ELSE [acc EXCEPT !.output = Append(@, TupleV(u.items)),
                     !.offset = u.offset,
                     !.reads = @ \o u.reads]

\* the loop of _unpack_array: the remaining repetitions
unpack_repeat(f, b, left, acc) ==
    IF left <= 0 \/ ~acc.ok THEN acc
    ELSE unpack_repeat(f, b, left - 1, repeat_done(acc, _unpack(f, b, acc.offset, 1)))

\* faulty variant: the output is flattened whatever the inner format
array_result_flat(f, r) ==
    IF r.ok THEN [r EXCEPT !.output = Chain(@)] ELSE r

\* lines 122-123: the output is flattened when the format is one character
array_result(f, r) ==
    IF r.ok /\ Len(f) = 1 THEN [r EXCEPT !.output = Chain(@)] ELSE r

_unpack_array(f, b, o, count) ==
    array_result(f, unpack_repeat(f, b, count, [ok |-> TRUE, err |-> "", output |-> <<>>,
                                                offset |-> o, reads |-> <<>>]))

\* fmt.replace(' ', '') and the removal of a leading order mark
Normalized(f) ==
    LET g == SelectSeq(f, LAMBDA c : c # " ")
    IN IF g # <<>> /\ g[1] \in {"!", ">", "<"} THEN Tail(g) ELSE g

\* unpack_from returns [ok, err, ret, unwrapped, offset, reads]: ret is the
\* value the source returns; unwrapped tells whether line 54 ran; offset and
\* reads are those of the walker
NoResult == [ok |-> FALSE, err |-> "IndexError", ret |-> NoneV, unwrapped |-> FALSE,
             offset |-> 0, reads |-> <<>>]

\* lines 50-56: the result of the walker u for the normalized format g
unpack_from_result(g, u) ==
    IF ~u.ok THEN [NoResult EXCEPT !.err = u.err]
    ELSE IF g = <<>> THEN NoResult
    ELSE [ok |-> TRUE, err |-> "",
          ret |-> IF g[1] = "[" /\ Len(u.items) = 1 THEN u.items[1] ELSE TupleV(u.items),
          unwrapped |-> g[1] = "[" /\ Len(u.items) = 1,
          offset |-> u.offset, reads |-> u.reads]

unpack_from(f, b, o) ==
    IF SelectSeq(f, LAMBDA c : c # " ") = <<>> THEN NoResult
    ELSE unpack_from_result(Normalized(f), _unpack(Normalized(f), b, o, 1))

(* ------------------------------ encoding ------------------------------- *)
\* what the regular expression NOARG_STRUCT_FMTS matches: every character
\* outside its class
NOARG_STRUCT_FMTS(c) ==
    c \notin {"x", "c", "b", "B", "?", "h", "H", "i", "I", "l", "L", "q", "Q",
              "f", "d", "s", "p", "P"}

\* re.sub(NOARG_STRUCT_FMTS, '', fmt_part)
args_only_fmt(part) == SelectSeq(part, LAMBDA c : ~NOARG_STRUCT_FMTS(c))

\* [p for p in re.split('(V)', fmt) if p]
RECURSIVE SplitV(_, _)
SplitV(f, run) ==
    IF f = <<>> THEN (IF run = <<>> THEN <<>> ELSE <<run>>)
    ELSE IF Head(f) = "V"
         THEN (IF run = <<>> THEN <<>> ELSE <<run>>) \o <<(<<"V">>)>> \o SplitV(Tail(f), <<>>)
         ELSE SplitV(Tail(f), Append(run, Head(f)))

parts(f) == SplitV(f, <<>>)

\* "!" + fmt_part if fmt.startswith("!") and i != 0 else fmt_part (i from 0)
prefixed(f, i, fmt_part) ==
    IF f # <<>> /\ f[1] = "!" /\ i # 0 THEN <<"!">> \o fmt_part ELSE fmt_part

\* the loop of the varint path over parts(f), from part number i (from 0) on;
\* st.taken lists how many arguments each part popped
RECURSIVE pack_parts(_, _, _)
pack_parts(f, i, st) ==
    IF i >= Len(parts(f)) \/ ~st.ok THEN st
    ELSE LET fmt_part == parts(f)[i + 1]
         IN IF fmt_part # <<"V">>
            THEN LET n == Len(args_only_fmt(fmt_part))
                     p == prefixed(f, i, fmt_part)
                 IN IF Len(st.args) < n
                    THEN [st EXCEPT !.ok = FALSE, !.err = "IndexError"]
                    ELSE LET r == struct_pack_into(p, st.buff, st.offset, SubSeq(st.args, 1, n))
                         IN IF ~r.ok
                            THEN [st EXCEPT !.ok = FALSE, !.err = r.err, !.buff = r.buff,
                                            !.args = SubSeq(@, n + 1, Len(@)),
                                            !.taken = Append(@, n)]
                            ELSE pack_parts(f, i + 1,
                                   [st EXCEPT !.buff = r.buff,
                                              !.args = SubSeq(@, n + 1, Len(@)),
                                              !.taken = Append(@, n),
                                              !.offset = @ + calcsize(p),
                                              !.size = @ + calcsize(p)])
            ELSE IF st.args = <<>>
                 THEN [st EXCEPT !.ok = FALSE, !.err = "IndexError"]
                 ELSE LET r == pack_varint_into(st.buff, st.offset, Head(st.args))
                      IN IF ~r.ok
                         THEN [st EXCEPT !.ok = FALSE, !.err = r.err, !.buff = r.buff,
                                         !.args = Tail(@), !.taken = Append(@, 1)]
                         ELSE pack_parts(f, i + 1,
                                [st EXCEPT !.buff = r.buff,
                                           !.args = Tail(@),
                                           !.taken = Append(@, 1),
                                           !.offset = @ + r.size,
                                           !.size = @ + r.size])

\* pack_into returns [ok, err, ret, buff, taken, written]: ret is the value
\* the source returns, buff the buffer after the call, written the number of
\* bytes between the starting offset and the end of the last store
pack_into(f, b, o, as) ==
    IF "V" \in {f[k] : k \in 1..Len(f)}
    THEN LET st == pack_parts(f, 0, [ok |-> TRUE, err |-> "", buff |-> b, offset |-> o,
                                     size |-> 0, args |-> as, taken |-> <<>>])
         IN [ok |-> st.ok, err |-> st.err,
             ret |-> IF st.ok THEN IntV(st.size) ELSE NoneV,
             buff |-> st.buff, taken |-> st.taken, written |-> st.offset - o]
    ELSE LET r == struct_pack_into(f, b, o, as)
         IN [ok |-> r.ok, err |-> r.err, ret |-> NoneV, buff |-> r.buff, taken |-> <<>>,
             written |-> IF r.ok THEN calcsize(f) ELSE 0]

(* ------------------------------- inputs -------------------------------- *)
Hosts == [order : {"little", "big"}, long : {4, 8}]
Offsets == 0..MaxOffset

RECURSIVE Fill(_, _)
Fill(n, byte) == IF n <= 0 THEN <<>> ELSE <<byte>> \o Fill(n - 1, byte)

\* preallocated buffers: zeroed and all ones; and one too short for most calls
Fills == {Fill(BufLen, 0), Fill(BufLen, 255)}
ShortFills == {Fill(2, 0)}

VarintVals == {0, 1, 127, 128, 300, 16383, 16384, 2097151, 2097152,
               268435455, 268435456, 2147483647}

ArgVals == {1, -1, 300, 65535, 16909060}

ArgLists ==
    {<<>>} \cup {<<a>> : a \in ArgVals}
    \cup {<<1, 300>>, <<300, 2>>, <<1, 300, 2>>, <<2, 1, 300>>}

PackFmts ==
    { <<"i", "V", "i">>, <<"!", "i", "V", "i">>, <<">", "i", "V", "i">>,
      <<"<", "i", "V", "i">>, <<"x", "i", "V">>, <<"!", "h", "V">>,
      <<"b", "i", "V">>, <<"V", "V">>,
      <<"i">>, <<"!", "i">>, <<"h">>, <<"b">>, <<"H">>, <<"l">>, <<"!", "h", "i">> }

UnpackFmts ==
    { <<"[", "[", "i", "]", "]">>, <<"[", "i", "]">>, <<"[", "i", "]", "x">>,
      <<"[", "i", "]", "b">>, <<"[", " ", "i", "h", "]">>, <<"!", "[", "S", "]">>,
      <<"[", "i", "]", "[", "h", "]">>,
      <<"S">>, <<"Y">>, <<"h", "S">>, <<"V">>, <<"V", "h">>,
      <<"i">>, <<"l">>, <<"l", "i">>, <<"x", "h">>,
      <<"[", "i">>, <<"i", "[", "h">>, <<"i", "]">>, <<"!">> }

I32(n) == <<0, 0, 0, n>>

\* wire images for the decoder, some of them cut short
WireBuffers ==
    { I32(2) \o I32(1) \o I32(2) \o <<7>>,
      I32(1) \o I32(2) \o I32(5) \o I32(6),
      I32(1) \o I32(0),
      I32(2) \o I32(1),
      I32(1) \o <<0, 3, 97, 98, 99>>,
      <<255, 255, 255, 255>>,
      <<0, 3, 97, 98, 99>>, <<0, 0, 0, 3, 97, 98, 99>>,
      <<0, 5, 97>>, <<172>>, <<172, 2, 0, 9>>,
      Fill(12, 0), <<>> }

VarintInputs ==
    {[fmt |-> <<"V">>, args |-> <<v>>, val |-> v, offset |-> o, buff |-> b] :
        v \in VarintVals, o \in Offsets, b \in Fills \cup ShortFills}

EncodeInputs ==
    [fmt : PackFmts, args : ArgLists, val : {300}, offset : Offsets, buff : Fills]

DecodeInputs ==
    [fmt : UnpackFmts, args : {<<>>}, val : {300}, offset : Offsets,
     buff : WireBuffers]

Inputs == VarintInputs \cup EncodeInputs \cup DecodeInputs

(* ---------------------------- state machine ---------------------------- *)
NoPack == [op |-> "none", ok |-> FALSE, err |-> "", ret |-> NoneV, taken |-> <<>>,
           written |-> 0]
NoUnpack == [op |-> "none", ok |-> FALSE, err |-> "", ret |-> NoneV, unwrapped |-> FALSE,
             offset |-> 0, reads |-> <<>>]

Init ==
    /\ host \in Hosts
    /\ \E in \in Inputs :
          /\ fmt = in.fmt
          /\ args = in.args
          /\ val = in.val
          /\ offset = in.offset
          /\ buff = in.buff
    /\ packret = NoPack
    /\ unpackret = NoUnpack

\* a call of pack_varint_into(buff, offset, val)
PackVarintInto ==
    LET r == pack_varint_into(buff, offset, val)
    IN /\ buff' = r.buff
       /\ packret' = [op |-> "pack_varint_into", ok |-> r.ok, err |-> r.err,
                      ret |-> IF r.ok THEN IntV(r.size) ELSE NoneV,
                      taken |-> <<>>, written |-> IF r.ok THEN r.size ELSE 0]
       /\ unpackret' = NoUnpack
       /\ UNCHANGED <<host, fmt, args, val, offset>>

\* a call of pack_into(fmt, buff, offset, *args)
PackInto ==
    LET r == pack_into(fmt, buff, offset, args)
    IN /\ buff' = r.buff
       /\ packret' = [op |-> "pack_into", ok |-> r.ok, err |-> r.err, ret |-> r.ret,
                      taken |-> r.taken, written |-> r.written]
       /\ unpackret' = NoUnpack
       /\ UNCHANGED <<host, fmt, args, val, offset>>

\* a call of unpack_varint_from(buff, offset)
UnpackVarintFrom ==
    LET r == unpack_varint_from(buff, offset)
    IN /\ unpackret' = [op |-> "unpack_varint_from", ok |-> r.ok, err |-> r.err,
                        ret |-> IF r.ok THEN TupleV(<<IntV(r.size), r.result>>) ELSE NoneV,
                        unwrapped |-> FALSE,
                        offset |-> IF r.ok THEN offset + r.size ELSE 0,
                        reads |-> IF r.ok THEN <<[at |-> offset, n |-> r.size]>> ELSE <<>>]
       /\ UNCHANGED <<host, fmt, args, val, offset, buff, packret>>

\* a call of unpack_from(fmt, buff, offset)
UnpackFrom ==
    LET r == unpack_from(fmt, buff, offset)
    IN /\ unpackret' = [op |-> "unpack_from", ok |-> r.ok, err |-> r.err, ret |-> r.ret,
                        unwrapped |-> r.unwrapped, offset |-> r.offset, reads |-> r.reads]
       /\ UNCHANGED <<host, fmt, args, val, offset, buff, packret>>

Next == PackVarintInto \/ PackInto \/ UnpackVarintFrom \/ UnpackFrom

Spec == Init /\ [][Next]_vars

TypeOK ==
    /\ host \in Hosts
    /\ \A k \in 1..Len(buff) : buff[k] \in 0..255
    /\ packret.op \in {"none", "pack_varint_into", "pack_into"}
    /\ unpackret.op \in {"none", "unpack_varint_from", "unpack_from"}

(* ------------------------------- claims -------------------------------- *)
Chars(f) == {f[k] : k \in 1..Len(f)}
PackedBy(op) == packret.op = op /\ packret.ok
UnpackedBy(op) == unpackret.op = op

RECURSIVE VarintBytes(_)
VarintBytes(v) ==
    IF v \div 128 = 0 THEN <<v % 128>> ELSE <<(v % 128) + 128>> \o VarintBytes(v \div 128)

\* the wire layout of values vs under format body f: fixed-width values
\* big-endian and unpadded, varints as their bytes, in format order
RECURSIVE WireImage(_, _)
WireImage(f, vs) ==
    IF f = <<>> THEN <<>>
    ELSE IF Head(f) = "x" THEN <<0>> \o WireImage(Tail(f), vs)
    ELSE IF Head(f) = "V" THEN VarintBytes(Head(vs)) \o WireImage(Tail(f), Tail(vs))
    ELSE IntBytes(Head(vs), CodeSize(Head(f), [order |-> "big", native |-> FALSE]), "big")
         \o WireImage(Tail(f), Tail(vs))

\* C2: a successful pack_into with a format that contains V leaves, from
\* offset on, the contiguous big-endian wire layout of its arguments,
\* whatever order mark the format has, and returns its length.
C2_BigEndianRuns ==
    (PackedBy("pack_into") /\ "V" \in Chars(fmt))
    => /\ Slice(buff, offset, offset + Len(WireImage(StructBody(fmt), args)))
            = WireImage(StructBody(fmt), args)
       /\ packret.ret = IntV(Len(WireImage(StructBody(fmt), args)))

\* the int32 stored big-endian at offset o
Int32At(b, o) == IntFromBE("i", Slice(b, o, o + 4))
NestedFmt == <<"[", "[", "i", "]", "]">>
InnerCount == Int32At(buff, offset + 4)
InnerValues == [k \in 1..InnerCount |-> IntV(Int32At(buff, offset + 4 + 4 * k))]
NestedDecoded ==
    /\ UnpackedBy("unpack_from") /\ unpackret.ok
    /\ fmt = NestedFmt
    /\ Int32At(buff, offset) = 1

C4_PrimitiveRoundTrip ==
    (PackedBy("pack_into") /\ UnpackedBy("unpack_from")
        /\ Len(fmt) = 1 /\ fmt[1] \in StructCodes \ {"x"})
    => /\ unpackret.ok
       /\ unpackret.ret = TupleV(<<IntV(args[1])>>)

ReadsInside ==
    \A k \in 1..Len(unpackret.reads) :
        /\ unpackret.reads[k].at >= 0
        /\ unpackret.reads[k].at + unpackret.reads[k].n <= Len(buff)

\* C5: when unpack_from returns a value, every byte range a value was read
\* from lies inside the buffer; a format that needs more bytes than remain
\* ends in an error.
C5_ShortBufferFails ==
    (UnpackedBy("unpack_from") /\ unpackret.ok) => ReadsInside

\* a varint whose last available byte has the continuation bit set, and a
\* string payload cut short
C5_Witness ==
    /\ UnpackedBy("unpack_from") /\ ~unpackret.ok
    /\ \/ fmt = <<"V">> /\ buff = <<172>> /\ offset = 0 /\ unpackret.err = "TypeError"
       \/ fmt = <<"S">> /\ buff = <<0, 5, 97>> /\ offset = 0

\* an opening bracket that is never closed
Unclosed(f) == CountOf("[", f) > CountOf("]", f)

\* C6: unpack_from fails on a format with an opening bracket that is never
\* closed.
C6_UnclosedBracketFails ==
    (UnpackedBy("unpack_from") /\ Unclosed(Normalized(fmt))) => ~unpackret.ok

\* C7: a successful pack_into returns the number of bytes it wrote, with
\* and without V in the format.
C7_ReturnsByteCount ==
    PackedBy("pack_into") => packret.ret = IntV(packret.written)

\* the placeholders of format body f that consume an argument
Placeholders(f) == SelectSeq(f, LAMBDA c : c # "x")

\* the number of arguments each part of f is to take
ExpectedTaken(f) ==
    [k \in 1..Len(parts(f)) |->
        IF parts(f)[k] = <<"V">> THEN 1 ELSE Len(Placeholders(StructBody(parts(f)[k])))]

\* args is a correct argument list for f: one value in range per placeholder
CorrectArgs(f, as) ==
    /\ StructValid(SelectSeq(f, LAMBDA c : c # "V"))
    /\ Len(as) = Len(Placeholders(StructBody(f)))
    /\ \A k \in 1..Len(as) :
          IF Placeholders(StructBody(f))[k] = "V" THEN as[k] >= 0
          ELSE InRange(Placeholders(StructBody(f))[k], as[k])

\* C8: in the varint path every run takes as many arguments as it has
\* argument-consuming placeholders (x takes none) and every V takes one, so
\* a correct argument list is packed.
C8_ArgDistribution ==
    (packret.op = "pack_into" /\ "V" \in Chars(fmt) /\ CorrectArgs(fmt, args)
        /\ Len(buff) = BufLen)
    => /\ packret.ok
       /\ packret.taken = ExpectedTaken(fmt)

\* nesting depth after each prefix of f
RECURSIVE Depth(_)
Depth(f) ==
    IF f = <<>> THEN 0
    ELSE Depth(SubSeq(f, 1, Len(f) - 1))
         + (IF f[Len(f)] = "[" THEN 1 ELSE IF f[Len(f)] = "]" THEN -1 ELSE 0)

Balanced(f) == Depth(f) = 0 /\ \A k \in 1..Len(f) : Depth(SubSeq(f, 1, k)) >= 0

\* the whole of f is one top-level array group
SingleArray(f) ==
    /\ Balanced(f) /\ f # <<>> /\ f[1] = "["
    /\ \A k \in 1..(Len(f) - 1) : Depth(SubSeq(f, 1, k)) > 0

\* C9: unpack_from removes one level of nesting exactly when the whole
\* normalized format is a single top-level array group.
C9_UnwrapRule ==
    (UnpackedBy("unpack_from") /\ unpackret.ok /\ Balanced(Normalized(fmt)))
    => (unpackret.unwrapped <=> SingleArray(Normalized(fmt)))

RECURSIVE SumN(_)
SumN(rs) == IF rs = <<>> THEN 0 ELSE Head(rs).n + SumN(Tail(rs))

\* C10: the walker reads consecutive tokens from contiguous byte ranges and
\* its final offset is the end of the last range.
C10_ContiguousReads ==
    (UnpackedBy("unpack_from") /\ unpackret.ok)
    => /\ \A k \in 1..Len(unpackret.reads) :
             unpackret.reads[k].at = offset + SumN(SubSeq(unpackret.reads, 1, k - 1))
       /\ unpackret.offset = offset + SumN(unpackret.reads)

====
